---- MODULE Spec2Model ----
(***************************************************************************)
(* Model of server/api.js of osumod: the request API of a modding queue.   *)
(*                                                                         *)
(* State: the Request and Settings collections of the store, the wall      *)
(* clock, and for every connection the position and the local variables of *)
(* the POST /api/request handler running on it.  Every await of a handler  *)
(* is one step (the store executes one query atomically); the code between *)
(* two awaits is local and belongs to the step that resumes it.            *)
(*                                                                         *)
(* Left out: title, artist, bpm, length, image and m4m of a map and the    *)
(* feedback of a request (copied, never read by a handler), the GET        *)
(* routes (read only) and failures of the store itself.                    *)
(***************************************************************************)
EXTENDS Integers, Sequences, FiniteSets, TLC

\* ------------------------------------------------------------------ bounds
\* Number of connections that can run POST /api/request at the same time.
MaxInFlight == 2
\* Number of POST /api/request submissions in one behaviour.
MaxSubmits == 2
\* Number of calls of the other routes (delete, edit, settings, open).
MaxCalls == 1
\* Number of submissions in one behaviour with concurrent connections.
MaxBurst == 3

\* --------------------------------------------------------------- constants
\* 24 * 3600 * 1000, milliseconds per day (api.js:111, api.js:115)
DayMs == 86400000
\* map.comment.length > 500 (api.js:93)
MaxComment == 500

ModderType == [FULL |-> "full", PROBATION |-> "probation", MODDER |-> "modder"]

\* "absent" values of JavaScript: null and undefined
Null == [null |-> TRUE]
\* the object {}
EmptyObject == [empty |-> TRUE]
\* a query of Promise.all that has not resolved yet
Waiting == [waiting |-> TRUE]

\* ------------------------------------------------------------ environment
\* Logged-in users: req.user.username, with req.user.userid below.
Users == {"alice", "bob"}
userid == [u \in Users |-> IF u = "alice" THEN 1001 ELSE 1002]
\* Users that pass ensure.isAdmin.
Admins == {"alice"}
\* Values of req.body.target: a queue owner, and a name that owns no queue.
Targets == {"alice", "bob"}
\* Values of req.body.comment: undefined, or a text of that many characters.
Comments == {Null, [length |-> MaxComment], [length |-> MaxComment + 1]}
\* Values of req.body.status / req.body.archived of POST /api/request-edit.
Statuses == {"Pending", "Accepted"}

\* What the osu! API holds per beatmapset id: the difficulties of the set
\* (rating in thousandths of a star), none for an unknown set.  Id 4 makes
\* the API call itself fail.
Beatmaps ==
  [id \in 1..3 |->
     CASE id = 1 -> << [version |-> "Hard", mode |-> "Standard", rating |-> 3456,
                        creator |-> "bob", approvalStatus |-> "Pending"],
                       [version |-> "Easy", mode |-> "Standard", rating |-> 1495,
                        creator |-> "bob", approvalStatus |-> "Pending"] >>
       [] id = 2 -> << [version |-> "Oni", mode |-> "Taiko", rating |-> 4005,
                        creator |-> "alice", approvalStatus |-> "Ranked"] >>
       [] OTHER  -> << >>]
MapIds == 1..4

\* Instants at which the wall clock is read (milliseconds).
Instants == {0, DayMs - 1, DayMs}

\* Bodies of POST /api/settings ($set of the fields given).
SettingsBodies ==
  { [open |-> TRUE, maxPending |-> 1],
    [modderType |-> ModderType.MODDER, cooldown |-> 0],
    [modes |-> <<"Standard", "Taiko">>, maxPending |-> 2] }

\* ------------------------------------------------------------------ state
VARIABLES
  Request,    \* the Request collection: a set of documents
  Settings,   \* the Settings collection: owner -> document
  clock,      \* the wall clock, in milliseconds
  nextId,     \* the _id the store gives the next Request
  submits,    \* submissions started so far
  calls,      \* calls of the other routes so far
  handler,    \* per connection: the running POST /api/request handler
  peak,       \* most POST /api/request handlers in flight at once so far
  sent        \* the response res.send is handing over, Null when none

vars == <<Request, Settings, clock, nextId, submits, calls, handler, peak, sent>>

Conns == 1..MaxInFlight

\* Handlers of POST /api/request that are waiting on the store.
InFlight == Cardinality({c \in Conns : handler[c].pc # "idle"})

Max(a, b) == IF a >= b THEN a ELSE b

\* A connection with no handler running, and the locals of a handler that
\* has just been called with the user u and the body { target, id, comment }.
Idle == [pc |-> "idle"]

Called(u, t, id, cm) ==
  [pc |-> "called", user |-> u, target |-> t, id |-> id, comment |-> cm,
   map |-> Null, now |-> Null, settings |-> Null, lastReq |-> Null,
   errors |-> Null, request |-> Null]

\* ---------------------------------------------------------------- helpers
\* Math.round(num * 100) / 100 of num = n / d, in hundredths, for a d that
\* 200 divides (1000 for a rating, DayMs for a wait).  Math.round rounds to
\* the nearest integer, halves towards +infinity: floor(100 * n / d + 1 / 2).
round(n, d) == (n + d \div 200) \div (d \div 100)

isBN(settings) ==
  settings.modderType = ModderType.FULL \/ settings.modderType = ModderType.PROBATION

\* osuApi.getBeatmaps({ s: id }): node-osu is built with its defaults
\* (notFoundAsError), so both a failed call and an empty answer throw.
getBeatmaps(id) ==
  IF id \in DOMAIN Beatmaps /\ Beatmaps[id] # << >>
    THEN [threw |-> FALSE, data |-> Beatmaps[id]]
    ELSE [threw |-> TRUE]

\* Array.prototype.sort((a, b) => a.sr - b.sr): stable insertion by sr.
RECURSIVE InsertBySr(_, _)
InsertBySr(d, s) ==
  IF s = << >> THEN << d >>
  ELSE IF d.sr < Head(s).sr THEN << d >> \o s
  ELSE << Head(s) >> \o InsertBySr(d, Tail(s))

RECURSIVE SortBySr(_)
SortBySr(s) ==
  IF s = << >> THEN << >>
  ELSE InsertBySr(s[Len(s)], SortBySr(SubSeq(s, 1, Len(s) - 1)))

\* The map object built from the lookup result and the request body.
BuildMap(id, mapData, comment) ==
  [mapId   |-> id,
   creator |-> mapData[1].creator,
   comment |-> IF comment = Null THEN 0 ELSE comment.length,
   diffs   |-> SortBySr([i \in 1..Len(mapData) |->
                 [name |-> mapData[i].version, mode |-> mapData[i].mode,
                  sr |-> round(mapData[i].rating, 1000)]]),
   status  |-> mapData[1].approvalStatus]

\* Array.prototype.join(", ")
RECURSIVE Join(_)
Join(s) ==
  IF s = << >> THEN ""
  ELSE IF Len(s) = 1 THEN s[1]
  ELSE s[1] \o ", " \o Join(Tail(s))

\* A number of hundredths printed the way JavaScript prints the number.
FormatNumber(h) ==
  LET w == h \div 100
      f == h % 100
  IN ToString(w) \o
     (IF f = 0 THEN ""
      ELSE IF f % 10 = 0 THEN "." \o ToString(f \div 10)
      ELSE IF f < 10 THEN ".0" \o ToString(f)
      ELSE "." \o ToString(f))

Includes(s, x) == \E i \in 1..Len(s) : s[i] = x

\* Settings.findOne({ owner })
FindSettings(owner) ==
  IF owner \in DOMAIN Settings THEN Settings[owner] ELSE Null

\* Request.findOne({ user, target }).sort({ requestDate: -1 })
FindLastReq(uid, target) ==
  LET mine == {r \in Request : r.user = uid /\ r.target = target}
  IN IF mine = {} THEN Null
     ELSE CHOOSE r \in mine :
            /\ \A q \in mine : q.requestDate <= r.requestDate
            /\ \A q \in mine : q.requestDate = r.requestDate => q.id <= r.id

\* Request.countDocuments({ status: "Pending", target })
CountPending(target) ==
  Cardinality({r \in Request : r.status = "Pending" /\ r.target = target})

\* ------------------------------------------------- POST /api/request rules
\* lines 75-83: no difficulty of the map is of an accepted mode
ModeErrors(h) ==
  LET acceptableDiffs ==
        SelectSeq(h.map.diffs, LAMBDA diff : Includes(h.settings.modes, diff.mode))
  IN IF Len(acceptableDiffs) = 0
       THEN IF Len(h.settings.modes) = 1
              THEN << "Only " \o h.settings.modes[1] \o " maps are accepted" >>
              ELSE << "Must be one of the following gamemodes: "
                      \o Join(h.settings.modes) >>
       ELSE << >>

\* lines 85-87
StatusErrors(h) ==
  IF isBN(h.settings) /\ h.map.status # "Pending"
    THEN << "Expected a Pending map (this is " \o h.map.status \o ")" >>
    ELSE << >>

\* lines 89-91
CreatorErrors(h) ==
  IF h.map.creator # h.user THEN << "This map isn't yours" >> ELSE << >>

\* lines 93-95
CommentErrors(h) ==
  IF h.map.comment > MaxComment THEN << "Comment is excessively long" >> ELSE << >>

\* lines 105-107
OpenErrors(h) ==
  IF ~h.settings.open THEN << "Requests are closed" >> ELSE << >>

CooldownErrorsInclusive(h) ==
  IF h.lastReq # Null
    THEN LET diff    == h.now - h.lastReq.requestDate
             minWait == h.settings.cooldown * DayMs
         IN IF diff <= minWait
              THEN << "You need to wait " \o FormatNumber(round(minWait - diff, DayMs))
                      \o " days before you can request again" >>
              ELSE << >>
    ELSE << >>

\* lines 109-119
CooldownErrors(h) ==
  IF h.lastReq # Null
    THEN LET diff    == h.now - h.lastReq.requestDate
             minWait == h.settings.cooldown * DayMs
         IN IF diff < minWait
              THEN << "You need to wait " \o FormatNumber(round(minWait - diff, DayMs))
                      \o " days before you can request again" >>
              ELSE << >>
    ELSE << >>

ErrorsKeepOwner(h) ==
  ModeErrors(h) \o StatusErrors(h) \o CreatorErrors(h)
  \o CommentErrors(h) \o OpenErrors(h) \o CooldownErrors(h)

ErrorsShortCircuit(h) ==
  LET errors == ModeErrors(h) \o StatusErrors(h) \o CreatorErrors(h)
                \o CommentErrors(h) \o OpenErrors(h) \o CooldownErrors(h)
  IN IF h.user = h.target \/ errors = << >> THEN << >> ELSE << errors[1] >>

\* lines 74-122: every rule is evaluated, then the owner's errors are dropped
Errors(h) ==
  LET errors == ModeErrors(h) \o StatusErrors(h) \o CreatorErrors(h)
                \o CommentErrors(h) \o OpenErrors(h) \o CooldownErrors(h)
  IN IF h.user = h.target THEN << >> ELSE errors

\* new Request({...map, status: "Pending", user, requestDate: now, target,
\* archived: false}); id is 0 until the document is saved.
NewRequest(h) ==
  [id |-> 0, status |-> "Pending", user |-> userid[h.user],
   requestDate |-> h.now, target |-> h.target, archived |-> FALSE]

\* ----------------------------------------------------- responses of a handler
\* res.send(body) of the handler in state h; the connection is free again.
Send(c, h, body) ==
  /\ sent' = [conn |-> c, h |-> h, kind |-> "data", body |-> body]
  /\ handler' = [handler EXCEPT ![c] = Idle]

\* An exception leaves the handler: express answers with its error page.
Throw(c, h) ==
  /\ sent' = [conn |-> c, h |-> h, kind |-> "error", body |-> Null]
  /\ handler' = [handler EXCEPT ![c] = Idle]

\* ------------------------------------------------------ POST /api/request
\* line 45: the answer to a lookup that threw
InvalidBeatmapNoReason == [mapset |-> EmptyObject, errors |-> << >>]

InvalidBeatmap == [mapset |-> EmptyObject, errors |-> << "Invalid beatmap ID" >>]

\* lines 37-72: the request arrives and the lookup resolves (nothing of the
\* store is touched in between); on success the map is built, the clock read
\* and the two queries issued
Start(c, u, t, id, cm) ==
  LET h == Called(u, t, id, cm)
      r == getBeatmaps(id)
  IN /\ sent = Null
     /\ handler[c].pc = "idle"
     /\ submits' = submits + 1
     /\ peak' = IF r.threw THEN peak ELSE Max(peak, InFlight + 1)
     /\ IF r.threw
          THEN Send(c, h, InvalidBeatmap)
          ELSE /\ handler' = [handler EXCEPT ![c] =
                    [h EXCEPT !.pc = "fetch", !.map = BuildMap(id, r.data, cm),
                              !.now = clock, !.settings = Waiting,
                              !.lastReq = Waiting]]
               /\ sent' = sent
     /\ UNCHANGED <<Request, Settings, clock, nextId, calls>>

DecideLenient(c, h) ==
  IF Len(h.errors) > 1
    THEN Send(c, h, [map |-> h.map, errors |-> h.errors])
    ELSE /\ handler' = [handler EXCEPT ![c] =
              [h EXCEPT !.pc = "save", !.request = NewRequest(h)]]
         /\ sent' = sent

\* lines 124-135: answer with the errors, or build the document and issue
\* its save
Decide(c, h) ==
  IF Len(h.errors) > 0
    THEN Send(c, h, [map |-> h.map, errors |-> h.errors])
    ELSE /\ handler' = [handler EXCEPT ![c] =
              [h EXCEPT !.pc = "save", !.request = NewRequest(h)]]
         /\ sent' = sent

\* lines 69-135: a query of Promise.all has resolved; once both have, the
\* rules run (settings.modes of a missing document throws a TypeError)
AfterFetch(c, h) ==
  IF h.settings = Waiting \/ h.lastReq = Waiting
    THEN handler' = [handler EXCEPT ![c] = h] /\ sent' = sent
  ELSE IF h.settings = Null
    THEN Throw(c, h)
  ELSE Decide(c, [h EXCEPT !.errors = Errors(h)])

\* line 70: Settings.findOne resolves
ReadSettings(c) ==
  LET h == handler[c]
  IN /\ sent = Null
     /\ h.pc = "fetch"
     /\ h.settings = Waiting
     /\ AfterFetch(c, [h EXCEPT !.settings = FindSettings(h.target)])
     /\ UNCHANGED <<Request, Settings, clock, nextId, submits, calls, peak>>

\* line 71: Request.findOne resolves
ReadLastReq(c) ==
  LET h == handler[c]
  IN /\ sent = Null
     /\ h.pc = "fetch"
     /\ h.lastReq = Waiting
     /\ AfterFetch(c, [h EXCEPT !.lastReq = FindLastReq(userid[h.user], h.target)])
     /\ UNCHANGED <<Request, Settings, clock, nextId, submits, calls, peak>>

\* line 136: request.save() resolves; the count is issued
Save(c) ==
  LET h   == handler[c]
      doc == [h.request EXCEPT !.id = nextId]
  IN /\ sent = Null
     /\ h.pc = "save"
     /\ Request' = Request \cup {doc}
     /\ nextId' = nextId + 1
     /\ handler' = [handler EXCEPT ![c] = [h EXCEPT !.pc = "count", !.request = doc]]
     /\ UNCHANGED <<Settings, clock, submits, calls, peak, sent>>

QueueFullStrict(numPending, settings) == numPending > settings.maxPending

\* line 139
QueueFull(numPending, settings) == numPending >= settings.maxPending

\* lines 138-145: countDocuments resolves; close the queue or answer
Count(c) ==
  LET h          == handler[c]
      numPending == CountPending(h.target)
  IN /\ sent = Null
     /\ h.pc = "count"
     /\ IF QueueFull(numPending, h.settings)
          THEN /\ handler' = [handler EXCEPT ![c] = [h EXCEPT !.pc = "close"]]
               /\ sent' = sent
          ELSE Send(c, h, [map |-> h.request, errors |-> h.errors])
     /\ UNCHANGED <<Request, Settings, clock, nextId, submits, calls, peak>>

CloseQueueOpens(owner) ==
  [o \in DOMAIN Settings |->
     IF o = owner THEN [Settings[o] EXCEPT !.open = TRUE] ELSE Settings[o]]

\* Settings.updateOne({ owner }, { $set: { open: false } })
CloseQueue(owner) ==
  [o \in DOMAIN Settings |->
     IF o = owner THEN [Settings[o] EXCEPT !.open = FALSE] ELSE Settings[o]]

\* lines 141-145: the update resolves; answer
Close(c) ==
  LET h == handler[c]
  IN /\ sent = Null
     /\ h.pc = "close"
     /\ Settings' = CloseQueue(h.target)
     /\ Send(c, h, [map |-> h.request, errors |-> h.errors])
     /\ UNCHANGED <<Request, clock, nextId, submits, calls, peak>>

\* res.send has handed the response over
EndResponse ==
  /\ sent # Null
  /\ sent' = Null
  /\ UNCHANGED <<Request, Settings, clock, nextId, submits, calls, handler, peak>>

\* ------------------------------------------------------- the other routes
\* One more call of a route other than POST /api/request.
Call == calls < MaxCalls /\ calls' = calls + 1

\* DELETE /api/request: Request.deleteOne({ _id: id, user: req.user.userid })
Delete(u, id) ==
  /\ sent = Null
  /\ Call
  /\ Request' = {r \in Request : ~(r.id = id /\ r.user = userid[u])}
  /\ UNCHANGED <<Settings, clock, nextId, submits, handler, peak, sent>>

\* POST /api/request-edit: Request.findOneAndUpdate({ _id: id }, { $set: ... })
Edit(a, id, status, archived) ==
  /\ sent = Null
  /\ Call
  /\ Request' = {IF r.id = id THEN [r EXCEPT !.status = status, !.archived = archived]
                 ELSE r : r \in Request}
  /\ UNCHANGED <<Settings, clock, nextId, submits, handler, peak, sent>>

\* { $set: body } on one Settings document
SetFields(doc, body) ==
  [f \in DOMAIN doc |-> IF f \in DOMAIN body THEN body[f] ELSE doc[f]]

\* POST /api/settings: Settings.findOneAndUpdate({ owner: req.user.username }, ...)
SetSettings(a, body) ==
  /\ sent = Null
  /\ Call
  /\ Settings' = [o \in DOMAIN Settings |->
                    IF o = a THEN SetFields(Settings[o], body) ELSE Settings[o]]
  /\ UNCHANGED <<Request, clock, nextId, submits, handler, peak, sent>>

\* POST /api/open: Settings.findOneAndUpdate({ owner }, { $set: { open } })
Open(a, owner, open) ==
  /\ sent = Null
  /\ Call
  /\ Settings' = [o \in DOMAIN Settings |->
                    IF o = owner THEN SetFields(Settings[o], [open |-> open])
                    ELSE Settings[o]]
  /\ UNCHANGED <<Request, clock, nextId, submits, handler, peak, sent>>

\* Time passes.
Tick(t) ==
  /\ sent = Null
  /\ t > clock
  /\ clock' = t
  /\ UNCHANGED <<Request, Settings, nextId, submits, calls, handler, peak, sent>>

\* ---------------------------------------------------------- specification
Init ==
  /\ Request = {}
  /\ Settings = [o \in {"alice"} |->
       [modderType |-> ModderType.FULL, modes |-> <<"Standard">>, open |-> TRUE,
        cooldown |-> 1, maxPending |-> 2]]
  /\ clock = 0
  /\ nextId = 1
  /\ submits = 0
  /\ calls = 0
  /\ handler = [c \in Conns |-> Idle]
  /\ peak = 0
  /\ sent = Null

\* The steps of the handlers of POST /api/request already running.
Resume ==
  \/ \E c \in Conns : ReadSettings(c)
  \/ \E c \in Conns : ReadLastReq(c)
  \/ \E c \in Conns : Save(c)
  \/ \E c \in Conns : Count(c)
  \/ \E c \in Conns : Close(c)
  \/ EndResponse

\* The routes other than POST /api/request.
Others ==
  \/ \E u \in Users, r \in Request : Delete(u, r.id)
  \/ \E a \in Admins, r \in Request, s \in Statuses, ar \in BOOLEAN :
       Edit(a, r.id, s, ar)
  \/ \E a \in Admins, body \in SettingsBodies : SetSettings(a, body)
  \/ \E a \in Admins, o \in DOMAIN Settings, open \in BOOLEAN : Open(a, o, open)

\* Every route and every input, the submissions one after another.
Next ==
  \/ /\ submits < MaxSubmits
     /\ \E u \in Users, t \in Targets, id \in MapIds, cm \in Comments :
          Start(1, u, t, id, cm)
  \/ Resume
  \/ Others
  \/ \E t \in Instants : Tick(t)

Spec == Init /\ [][Next]_vars

\* Every route and every input, each call running to its end before the next.
NextSerial ==
  \/ /\ submits < MaxSubmits
     /\ InFlight = 0
     /\ \E u \in Users, t \in Targets, id \in MapIds, cm \in Comments :
          Start(1, u, t, id, cm)
  \/ Resume
  \/ InFlight = 0 /\ Others
  \/ \E t \in Instants : Tick(t)

SpecSerial == Init /\ [][NextSerial]_vars

\* Every route, concurrent submissions of one map to the queue of alice.
NextAll ==
  \/ /\ submits < MaxSubmits
     /\ \E c \in Conns, u \in Users : Start(c, u, "alice", 1, Null)
  \/ Resume
  \/ Others
  \/ \E t \in Instants : Tick(t)

SpecAll == Init /\ [][NextAll]_vars

\* Concurrent submissions to the queue of alice by others than alice, and
\* nothing else: the queue starts open and empty, with settings that POST
\* /api/settings can have left.
InitBurst ==
  /\ Request = {}
  /\ \E m \in {1, 2}, cd \in {0, 1} :
       Settings = [o \in {"alice"} |->
         [modderType |-> ModderType.FULL, modes |-> <<"Standard">>, open |-> TRUE,
          cooldown |-> cd, maxPending |-> m]]
  /\ clock = 0
  /\ nextId = 1
  /\ submits = 0
  /\ calls = 0
  /\ handler = [c \in Conns |-> Idle]
  /\ peak = 0
  /\ sent = Null

NextBurst ==
  \/ /\ submits < MaxBurst
     /\ \E c \in Conns, u \in Users \ {"alice"}, id \in {1, 2} :
          Start(c, u, "alice", id, Null)
  \/ Resume
  \/ \E t \in Instants : Tick(t)

SpecBurst == InitBurst /\ [][NextBurst]_vars

\* The same with deletions of requests.
NextRace ==
  \/ NextBurst
  \/ \E u \in Users, r \in Request : Delete(u, r.id)

SpecRace == InitBurst /\ [][NextRace]_vars

\* ------------------------------------------------------------- properties
\* A submission has just been answered; sent.h holds what its handler knew.
Answered == sent # Null

\* The osu! API has nothing to return for the id, or fails on it.
LookupFailed(id) == id \notin DOMAIN Beatmaps \/ Beatmaps[id] = << >>

\* The requester is the owner of the queue it submits to.
IsOwner(h) == h.target \in DOMAIN Settings /\ h.user = h.target

\* The handler saved a Request of its own.
Created(h) == h.request # Null /\ h.request.id > 0

\* The pending count of a queue as the specification defines it.
PendingCount(target) ==
  Cardinality({r \in Request :
                 r.target = target /\ ~r.archived /\ r.status = "Pending"})

\* The rules of the admission pipeline in their documented order, when a
\* submission violates one, and the reason it then reports.
RuleOrder == << "category", "status", "ownership", "comment", "open", "cooldown" >>

Violates(h, rule) ==
  CASE rule = "category" ->
         ~\E i \in 1..Len(h.map.diffs), j \in 1..Len(h.settings.modes) :
             h.map.diffs[i].mode = h.settings.modes[j]
    [] rule = "status" ->
         /\ h.settings.modderType \in {"full", "probation"}
         /\ h.map.status # "Pending"
    [] rule = "ownership" -> h.map.creator # h.user
    [] rule = "comment" -> h.map.comment > 500
    [] rule = "open" -> h.settings.open = FALSE
    [] rule = "cooldown" ->
         /\ h.lastReq # Null
         /\ h.now - h.lastReq.requestDate < h.settings.cooldown * DayMs

CooldownReason(hundredths) ==
  "You need to wait " \o FormatNumber(hundredths)
  \o " days before you can request again"

Reason(h, rule) ==
  CASE rule = "category" ->
         IF Len(h.settings.modes) = 1
           THEN "Only " \o h.settings.modes[1] \o " maps are accepted"
           ELSE "Must be one of the following gamemodes: " \o Join(h.settings.modes)
    [] rule = "status" -> "Expected a Pending map (this is " \o h.map.status \o ")"
    [] rule = "ownership" -> "This map isn't yours"
    [] rule = "comment" -> "Comment is excessively long"
    [] rule = "open" -> "Requests are closed"
    [] rule = "cooldown" ->
         CooldownReason(round(h.settings.cooldown * DayMs
                              - (h.now - h.lastReq.requestDate), DayMs))

\* A submission by somebody else than the owner was validated and answered.
ValidatedForOther ==
  /\ Answered
  /\ sent.kind = "data"
  /\ ~LookupFailed(sent.h.id)
  /\ sent.h.user # sent.h.target

\* C1 as stated: every submission of the owner of the target queue is
\* answered with an empty reasons list and its Request is saved.
C1_OwnerAlwaysAccepted ==
  (Answered /\ IsOwner(sent.h)) =>
    /\ sent.kind = "data"
    /\ sent.body.errors = << >>
    /\ Created(sent.h)

\* C1 as amended: every submission of the owner of the target queue whose
\* lookup succeeded is answered with an empty reasons list and with the
\* Request it saved, whatever the map, the settings and the prior request.
C1_OwnerBypass ==
  (Answered /\ IsOwner(sent.h) /\ ~LookupFailed(sent.h.id)) =>
    /\ sent.kind = "data"
    /\ sent.body.errors = << >>
    /\ Created(sent.h)
    /\ sent.body.map = sent.h.request

\* The owner is accepted on a closed queue, inside the cooldown, with a
\* comment that is too long and a map of the wrong mode and status.
C1_Witness ==
  /\ Answered
  /\ IsOwner(sent.h)
  /\ Created(sent.h)
  /\ \A rule \in {"category", "status", "comment", "open", "cooldown"} :
       Violates(sent.h, rule)

\* C2: for a requester other than the target owner the reasons list holds
\* one reason per violated rule and nothing else, in the order category,
\* status, ownership, comment, open, cooldown.
C2_ReasonsAreViolations ==
  ValidatedForOther =>
    LET violated == SelectSeq(RuleOrder, LAMBDA rule : Violates(sent.h, rule))
    IN sent.body.errors = [i \in 1..Len(violated) |-> Reason(sent.h, violated[i])]

\* All six rules are violated at once.
C2_Witness ==
  /\ ValidatedForOther
  /\ \A i \in 1..Len(RuleOrder) : Violates(sent.h, RuleOrder[i])
  /\ Len(sent.body.errors) = 6

\* C3 as stated, calls running one at a time: after an accepted submission
\* the queue is closed if the pending count before it was maxPending - 1 and
\* the open flag is as the handler found it if the count was below that.
C3_CapacityBoundary ==
  (Answered /\ sent.kind = "data" /\ Created(sent.h)) =>
    LET t      == sent.h.target
        before == PendingCount(t) - 1
    IN /\ before = Settings[t].maxPending - 1 => ~Settings[t].open
       /\ before < Settings[t].maxPending - 1 =>
            Settings[t].open = sent.h.settings.open

\* C4 as stated: two stored Requests of one user to one target that the
\* user does not own are at least the cooldown apart.
C4_MinimumSpacing ==
  \A r1, r2 \in Request :
    (/\ r1 # r2
     /\ r1.user = r2.user
     /\ r1.target = r2.target
     /\ r1.target \in DOMAIN Settings
     /\ r1.user # userid[r1.target]
     /\ r1.requestDate <= r2.requestDate)
    => r2.requestDate - r1.requestDate >= Settings[r1.target].cooldown * DayMs

\* C5: with submissions of others than the owner only, from an open queue
\* below its capacity, the pending count exceeds maxPending by less than
\* the largest number of handlers that were in flight at once.
C5_OvershootBound ==
  \A t \in DOMAIN Settings :
    /\ CountPending(t) <= Settings[t].maxPending - 1 + Max(peak, 1)
    /\ PendingCount(t) <= Settings[t].maxPending - 1 + Max(peak, 1)

\* Two concurrent submissions took the queue one past its capacity.
C5_Witness ==
  /\ peak = 2
  /\ PendingCount("alice") = Settings["alice"].maxPending + 1

\* C6: a submission is answered with an empty reasons list exactly when
\* its handler saved a Request; one answered with reasons has written
\* neither a Request nor a setting; a rejection is an answer, not an
\* exception; and a new Request in the store comes from a handler whose
\* reasons list is empty.
C6_PersistIffNoReasons ==
  [][ /\ (sent = Null /\ sent' # Null) =>
           /\ sent'.kind = "data" =>
                ((sent'.body.errors = << >>) <=> Created(sent'.h))
           /\ (sent'.kind = "data" /\ sent'.body.errors # << >>) =>
                (Request' = Request /\ Settings' = Settings)
           /\ sent'.kind = "error" =>
                (sent'.h.errors = Null /\ ~Created(sent'.h))
      /\ \A d \in Request' :
           d.id \notin {r.id : r \in Request} =>
             \E c \in Conns :
               /\ handler'[c].pc # "idle"
               /\ handler'[c].request = d
               /\ handler'[c].errors = << >>
    ]_vars

\* A submission is rejected with one reason and has saved nothing.
C6_Witness ==
  /\ Answered
  /\ sent.kind = "data"
  /\ Len(sent.body.errors) = 1
  /\ ~LookupFailed(sent.h.id)
  /\ ~Created(sent.h)

\* C7: a submission whose lookup fails or finds nothing is answered with
\* an empty mapset and the single reason "Invalid beatmap ID"; it has read
\* no settings and no prior request, run no rule and written nothing, and
\* no handler goes on with such an id.
C7_LookupFailure ==
  [][ /\ (sent = Null /\ sent' # Null /\ LookupFailed(sent'.h.id)) =>
           /\ sent'.kind = "data"
           /\ sent'.body = [mapset |-> EmptyObject, errors |-> << "Invalid beatmap ID" >>]
           /\ sent'.h.settings = Null
           /\ sent'.h.lastReq = Null
           /\ sent'.h.errors = Null
           /\ sent'.h.request = Null
           /\ Request' = Request
           /\ Settings' = Settings
      /\ \A c \in Conns :
           handler'[c].pc # "idle" => ~LookupFailed(handler'[c].id)
    ]_vars

\* The lookup of an unknown set is answered while requests are stored.
C7_Witness ==
  /\ Answered
  /\ sent.h.id \in DOMAIN Beatmaps
  /\ Beatmaps[sent.h.id] = << >>
  /\ Request # {}

\* The time since the prior request, and the cooldown, in milliseconds.
Elapsed(h) == h.now - h.lastReq.requestDate
MinWait(h) == h.settings.cooldown * DayMs

\* C8 as stated: at the cooldown exactly there is no cooldown reason; one
\* millisecond earlier there is one, and it reports more than 0 days.
C8_CooldownBoundary ==
  (ValidatedForOther /\ sent.h.lastReq # Null) =>
    /\ Elapsed(sent.h) = MinWait(sent.h) =>
         ~\E i \in 1..Len(sent.body.errors), x \in 0..(100 * sent.h.settings.cooldown) :
             sent.body.errors[i] = CooldownReason(x)
    /\ Elapsed(sent.h) = MinWait(sent.h) - 1 =>
         \E i \in 1..Len(sent.body.errors), x \in 1..(100 * sent.h.settings.cooldown) :
             sent.body.errors[i] = CooldownReason(x)

\* C8 as amended: at the cooldown exactly there is no cooldown reason; one
\* millisecond earlier there is one, the last of the list, and the days it
\* reports, rounded to two decimals, are 0.
C8_CooldownBoundaryRounded ==
  (ValidatedForOther /\ sent.h.lastReq # Null) =>
    /\ Elapsed(sent.h) = MinWait(sent.h) =>
         ~\E i \in 1..Len(sent.body.errors), x \in 0..(100 * sent.h.settings.cooldown) :
             sent.body.errors[i] = CooldownReason(x)
    /\ Elapsed(sent.h) = MinWait(sent.h) - 1 =>
         /\ sent.body.errors # << >>
         /\ sent.body.errors[Len(sent.body.errors)]
              = "You need to wait 0 days before you can request again"
         /\ \A i \in 1..Len(sent.body.errors), x \in 1..(100 * sent.h.settings.cooldown) :
              sent.body.errors[i] # CooldownReason(x)

\* A submission one millisecond before the end of a cooldown of one day.
C8_Witness ==
  /\ ValidatedForOther
  /\ sent.h.lastReq # Null
  /\ sent.h.settings.cooldown = 1
  /\ Elapsed(sent.h) = MinWait(sent.h) - 1

\* C9 as stated: the count compared with maxPending after a save is the
\* number of the target's Requests that are not archived and "Pending".
C9_CountIsPending ==
  [][ \A c \in Conns :
        (handler[c].pc = "count" /\ handler'[c].pc # "count") =>
          ((handler'[c].pc = "close") <=>
             (PendingCount(handler[c].target) >= handler[c].settings.maxPending))
    ]_vars

\* C10: the open flag of a queue turns from false to true only in a step
\* of POST /api/settings or POST /api/open, never in a step of a
\* submission, a deletion or an edit.
C10_OnlyOwnerReopens ==
  [][ (\E t \in DOMAIN Settings : ~Settings[t].open /\ Settings'[t].open) =>
        \/ \E a \in Admins, body \in SettingsBodies : SetSettings(a, body)
        \/ \E a \in Admins, o \in DOMAIN Settings : Open(a, o, TRUE)
    ]_vars

\* A queue closed at its capacity stays closed after a deletion took the
\* pending count below maxPending again.
C10_Witness ==
  /\ ~Settings["alice"].open
  /\ calls = 1
  /\ Cardinality(Request) = nextId - 2
  /\ CountPending("alice") < Settings["alice"].maxPending
  /\ CountPending("alice") > 0

====
